---- MODULE Spec2Model ----
(***************************************************************************)
(* Model of the bounded site crawler and its callers:                      *)
(*   main.py    fetch_page, crawl_site, search_web, crawl_additional_site, *)
(*              generate_report, main, run                                 *)
(*   crawler.py crawl_website (PlaywrightCrawler request handler)          *)
(*                                                                         *)
(* A URL is the sequence of its pieces: the scheme, the labels of the      *)
(* host, and, after a "/" piece, the segments of the path, so that         *)
(* str.startswith is the prefix test on sequences and the origin is the    *)
(* part before the path.  "http://a.com" is <<"http", "a", "com">> and     *)
(* "http://a.com.evil/" is <<"http", "a", "com", "evil", "/">>.            *)
(***************************************************************************)
EXTENDS Integers, Sequences, FiniteSets, TLC

VARIABLES entry, pc, start_url, max_pages, to_visit, visited, pages,
          site, fetches, failed, last, result, exit_code

vars == <<entry, pc, start_url, max_pages, to_visit, visited, pages,
          site, fetches, failed, last, result, exit_code>>

-----------------------------------------------------------------------------
(* Bounds and program constants *)

\* explicit page budgets tried for a crawl: 0 .. MaxBudget, plus the defaults
MaxBudget == 2

\* crawl_site(start_url, max_pages=5)
DefaultMaxPages == 5

\* crawl_additional_site(url, max_pages=10)
AdditionalMaxPages == 10

\* crawl_website(start_url, max_pages=5)
CrawlerMaxPages == 5

\* if response.status != 200: continue
StatusOK == 200

-----------------------------------------------------------------------------
(* URLs *)

U1 == <<"http", "a", "com">>
U0 == <<"http", "a", "com", "/">>
UP == <<"http", "a", "com", "/", "p">>
UE == <<"http", "a", "com", "evil", "/">>
UX == <<"http", "b", "com", "/">>
US == <<"http", "www", "a", "com", "/">>

PathP == <<"/", "p">>

RECURSIVE FirstSlash(_, _)
\* index of the first "/" piece of u at or after i, Len(u) + 1 when there is none
FirstSlash(u, i) ==
    IF i > Len(u) THEN Len(u) + 1
    ELSE IF u[i] = "/" THEN i
    ELSE FirstSlash(u, i + 1)

\* scheme + host (+ port): everything before the path
Origin(u) == SubSeq(u, 1, FirstSlash(u, 1) - 1)

\* the registrable domain: the last two labels of the host
Domain(u) ==
    LET o == Origin(u) IN SubSeq(o, Len(o) - 1, Len(o))

\* str.startswith
StartsWith(s, p) == Len(p) <= Len(s) /\ SubSeq(s, 1, Len(p)) = p

BaseUrls == {U1, U0, UP, UE, UX, US}

AllUrls == BaseUrls \cup {Origin(u) \o PathP : u \in BaseUrls}

Starts == {U1, U0}

-----------------------------------------------------------------------------
(* HTML: the sequence of a document's elements; "" is the empty sequence *)

Abs(u) == [kind |-> "abs", val |-> u]
Path(p) == [kind |-> "path", val |-> p]
BadHref == [kind |-> "bad", val |-> <<>>]
NoHref == [kind |-> "none", val |-> <<>>]

A(h) == [tag |-> "a", href |-> h]
Text == [tag |-> "p", href |-> NoHref]

Bodies ==
    { <<Text>>,
      <<A(Path(PathP))>>,
      <<A(Abs(U1))>>,
      <<A(Path(PathP)), A(Abs(U0))>>,
      <<A(Abs(UE)), A(Abs(UX)), A(Abs(US))>>,
      <<A(Abs(U0)), A(BadHref), A(Path(PathP))>>,
      <<>> }

\* what a server answers for a URL: a status and a body
Responses ==
    {[status |-> StatusOK, html |-> b] : b \in Bodies}
        \cup {[status |-> 404, html |-> <<Text>>]}

\* the part of the site no request has looked at yet
Unknown == [status |-> 0, html |-> <<>>]

\* session.get raised (network failure, timeout)
Raised == [status |-> -1, html |-> <<>>]

\* the responses the site can give to a GET of u: the one it gave before, or
\* any when u was never answered; every attempt can also fail in transit
Answers(u) ==
    IF site[u] = Unknown THEN Responses ELSE {site[u]}

\* soup.find_all('a', href=True)
RECURSIVE find_all_a(_)
find_all_a(html) ==
    IF html = <<>> THEN <<>>
    ELSE IF Head(html).tag = "a"
         THEN <<Head(html).href>> \o find_all_a(Tail(html))
         ELSE find_all_a(Tail(html))

\* urllib.parse.urljoin(base, href): [ok, url]; ok = FALSE is ValueError
urljoin(base, href) ==
    CASE href.kind = "abs" -> [ok |-> TRUE, url |-> href.val]
      [] href.kind = "path" -> [ok |-> TRUE, url |-> Origin(base) \o href.val]
      [] OTHER -> [ok |-> FALSE, url |-> <<>>]


-----------------------------------------------------------------------------
(* main.py: fetch_page and the loop of crawl_site *)

Entries == {"crawl_site", "run", "crawl_additional_site", "crawl_website",
            "search_web"}

\* the page budgets an entry point is started with
Budgets(e) ==
    CASE e = "crawl_site" -> (0 .. MaxBudget) \cup {DefaultMaxPages}
      [] e = "run" -> {DefaultMaxPages}
      [] e = "crawl_additional_site" -> (0 .. MaxBudget) \cup {AdditionalMaxPages}
      [] e = "crawl_website" -> (0 .. MaxBudget) \cup {CrawlerMaxPages}
      [] OTHER -> {0}

\* WebPage(url=url, content=...): the content is not modelled
WebPage(u) == [url |-> u]

\* fetch_page answering a failed GET with an error page instead of ""
fetch_page_error_page(resp) == IF resp = Raised THEN <<Text>> ELSE resp.html

\* try: return await response.text()  except Exception: return ""
fetch_page(resp) == IF resp = Raised THEN <<>> ELSE resp.html

\* the loop guard with <= for <
LoopGuardOffByOne(tv, vis, mp) == tv # {} /\ Cardinality(vis) <= mp

\* while to_visit and len(visited) < max_pages
LoopGuard(tv, vis, mp) == tv # {} /\ Cardinality(vis) < mp

\* reading an element of to_visit without removing it
PopKeeps(tv, u) == tv

\* url = to_visit.pop()
Pop(tv, u) == tv \ {u}

\* the loop without visited.add(url)
MarkVisitedForgotten(vis, u) == vis

\* visited.add(url)
MarkVisited(vis, u) == vis \cup {u}

\* the link filter without its test of visited
keep_link_unvisited_unchecked(new_url, start, vis) == StartsWith(new_url, start)

\* if new_url.startswith(start_url) and new_url not in visited
keep_link(new_url, start, vis) ==
    StartsWith(new_url, start) /\ new_url \notin vis

RECURSIVE site_links(_, _, _, _, _)
\* for link in soup.find_all('a', href=True): ... to_visit.add(new_url)
\* ok = FALSE when urljoin raised; the links before it were added
site_links(hrefs, base, start, vis, tv) ==
    IF hrefs = <<>> THEN [to_visit |-> tv, ok |-> TRUE]
    ELSE LET j == urljoin(base, Head(hrefs)) IN
         IF ~j.ok THEN [to_visit |-> tv, ok |-> FALSE]
         ELSE site_links(Tail(hrefs), base, start, vis,
                         IF keep_link(j.url, start, vis)
                         THEN tv \cup {j.url} ELSE tv)

\* main catching and printing the exception, the process ending normally
PropagateCaught(e, code) == IF e = "run" THEN 0 ELSE code

\* main and run catch nothing: an exception raised under asyncio.run(main(url))
\* ends the process with a failure
Propagate(e, code) == IF e = "run" THEN 1 ELSE code

Init ==
    /\ entry \in Entries
    /\ start_url \in (IF entry = "search_web" THEN {U1} ELSE Starts)
    /\ max_pages \in Budgets(entry)
    /\ pc = "call"
    /\ to_visit = {}
    /\ visited = {}
    /\ pages = <<>>
    /\ \E home \in (IF entry = "search_web" THEN {Unknown} ELSE Responses) :
         site = [u \in AllUrls |-> IF u = start_url THEN home ELSE Unknown]
    /\ fetches = [u \in AllUrls |-> 0]
    /\ failed = {}
    /\ last = [url |-> <<>>, resp |-> Unknown]
    /\ result = "none"
    /\ exit_code = -1

\* crawl_site, lines 54-58: the locals, then async with aiohttp.ClientSession()
CrawlSiteEnter ==
    /\ pc = "call"
    /\ entry \in {"crawl_site", "run"}
    /\ pages' = <<>>
    /\ visited' = {}
    /\ to_visit' = {start_url}
    /\ \E opened \in BOOLEAN :
         IF opened
         THEN pc' = "loop" /\ result' = result /\ exit_code' = exit_code
         ELSE /\ pc' = "raised"
              /\ result' = "ClientError"
              /\ exit_code' = Propagate(entry, exit_code)
    /\ UNCHANGED <<entry, start_url, max_pages, site, fetches, failed, last>>

\* crawl_site, lines 59-75: one iteration of the loop
CrawlSiteStep ==
    /\ pc = "loop"
    /\ entry \in {"crawl_site", "run"}
    /\ LoopGuard(to_visit, visited, max_pages)
    /\ \E url \in to_visit :
         IF url \in visited
         THEN /\ to_visit' = Pop(to_visit, url)
              /\ UNCHANGED <<visited, pages, site, fetches, failed, last, pc, result,
                             exit_code>>
         ELSE \E resp \in Answers(url) \cup {Raised} :
              LET html_content == fetch_page(resp) IN
              /\ fetches' = [fetches EXCEPT ![url] = @ + 1]
              /\ site' = IF resp = Raised THEN site
                         ELSE [site EXCEPT ![url] = resp]
              /\ failed' = IF resp = Raised THEN failed \cup {url} ELSE failed
              /\ last' = [url |-> url, resp |-> resp]
              /\ IF html_content # <<>>
                 THEN LET vis == MarkVisited(visited, url)
                          r == site_links(find_all_a(html_content), url,
                                          start_url, vis, Pop(to_visit, url))
                      IN /\ visited' = vis
                         /\ pages' = Append(pages, WebPage(url))
                         /\ to_visit' = r.to_visit
                         /\ IF r.ok
                            THEN /\ pc' = "loop"
                                 /\ UNCHANGED <<result, exit_code>>
                            ELSE /\ pc' = "raised"
                                 /\ result' = "ValueError"
                                 /\ exit_code' = Propagate(entry, exit_code)
                 ELSE /\ to_visit' = Pop(to_visit, url)
                      /\ UNCHANGED <<visited, pages, pc, result, exit_code>>
    /\ UNCHANGED <<entry, start_url, max_pages>>

\* crawl_site, line 77: return pages (main stores them in crawled_pages)
CrawlSiteReturn ==
    /\ pc = "loop"
    /\ entry \in {"crawl_site", "run"}
    /\ ~LoopGuard(to_visit, visited, max_pages)
    /\ IF entry = "run"
       THEN pc' = "report" /\ result' = result
       ELSE pc' = "returned" /\ result' = "pages"
    /\ UNCHANGED <<entry, start_url, max_pages, to_visit, visited, pages,
                   site, fetches, failed, last, exit_code>>

\* main, lines 233-247, under run's asyncio.run: await generate_report(prompt)
\* either returns and the report is printed, or agent.run raises
GenerateReport ==
    /\ pc = "report"
    /\ entry = "run"
    /\ \E answered \in BOOLEAN :
         IF answered
         THEN pc' = "returned" /\ result' = "report" /\ exit_code' = 0
         ELSE /\ pc' = "raised"
              /\ result' = "AgentError"
              /\ exit_code' = Propagate(entry, exit_code)
    /\ UNCHANGED <<entry, start_url, max_pages, to_visit, visited, pages,
                   site, fetches, failed, last>>

-----------------------------------------------------------------------------
(* main.py: the agent's tools search_web and crawl_additional_site *)

\* search_web without its try/except
search_web_uncaught(api_ok) ==
    IF api_ok THEN [pc |-> "returned", result |-> "results"]
    ELSE [pc |-> "raised", result |-> "SearchError"]

\* search_web: try: return str(results)  except Exception: return "Search failed"
search_web(api_ok) ==
    IF api_ok THEN [pc |-> "returned", result |-> "results"]
    ELSE [pc |-> "returned", result |-> "Search failed"]

SearchWeb ==
    /\ pc = "call"
    /\ entry = "search_web"
    /\ \E api_ok \in BOOLEAN :
         /\ pc' = search_web(api_ok).pc
         /\ result' = search_web(api_ok).result
    /\ UNCHANGED <<entry, start_url, max_pages, to_visit, visited, pages,
                   site, fetches, failed, last, exit_code>>

\* crawl_additional_site, lines 194-195: except Exception as e:
\*     return f"Crawling failed: {str(e)}"
crawling_failed == [pc |-> "returned", result |-> "Crawling failed"]

\* crawl_additional_site, lines 182-192: the formatted pages
format_results(pgs) ==
    IF pgs = <<>> THEN "No content found" ELSE "formatted"

\* if (new_url.startswith(url) and new_url not in visited and
\*     len(visited) < max_pages)
keep_additional(new_url, url, vis, mp) ==
    /\ StartsWith(new_url, url)
    /\ new_url \notin vis
    /\ Cardinality(vis) < mp

RECURSIVE additional_links(_, _, _, _, _, _)
\* lines 171-176; an exception of urljoin is caught by the inner except, with
\* the links before it already added
additional_links(hrefs, base, url, vis, mp, tv) ==
    IF hrefs = <<>> THEN tv
    ELSE LET j == urljoin(base, Head(hrefs)) IN
         IF ~j.ok THEN tv
         ELSE additional_links(Tail(hrefs), base, url, vis, mp,
                               IF keep_additional(j.url, url, vis, mp)
                               THEN tv \cup {j.url} ELSE tv)

\* crawl_additional_site, lines 137-142
AdditionalEnter ==
    /\ pc = "call"
    /\ entry = "crawl_additional_site"
    /\ pages' = <<>>
    /\ visited' = {}
    /\ to_visit' = {start_url}
    /\ \E opened \in BOOLEAN :
         IF opened
         THEN pc' = "loop" /\ result' = result
         ELSE pc' = crawling_failed.pc /\ result' = crawling_failed.result
    /\ UNCHANGED <<entry, start_url, max_pages, site, fetches, failed, last, exit_code>>

\* crawl_additional_site, lines 143-179: one iteration of the loop
AdditionalStep ==
    /\ pc = "loop"
    /\ entry = "crawl_additional_site"
    /\ LoopGuard(to_visit, visited, max_pages)
    /\ \E current_url \in to_visit :
         IF current_url \in visited
         THEN /\ to_visit' = Pop(to_visit, current_url)
              /\ UNCHANGED <<visited, pages, site, fetches, failed, last>>
         ELSE \E resp \in Answers(current_url) \cup {Raised} :
              /\ fetches' = [fetches EXCEPT ![current_url] = @ + 1]
              /\ site' = IF resp = Raised THEN site
                         ELSE [site EXCEPT ![current_url] = resp]
              /\ failed' = IF resp = Raised THEN failed \cup {current_url}
                            ELSE failed
              /\ last' = [url |-> current_url, resp |-> resp]
              /\ IF resp # Raised /\ resp.status = StatusOK
                 THEN LET vis == MarkVisited(visited, current_url) IN
                      /\ pages' = Append(pages, WebPage(current_url))
                      /\ visited' = vis
                      /\ to_visit' = additional_links(find_all_a(resp.html),
                                         current_url, start_url, vis, max_pages,
                                         Pop(to_visit, current_url))
                 ELSE /\ to_visit' = Pop(to_visit, current_url)
                      /\ UNCHANGED <<visited, pages>>
    /\ UNCHANGED <<entry, start_url, max_pages, pc, result, exit_code>>

\* crawl_additional_site, lines 181-192
AdditionalReturn ==
    /\ pc = "loop"
    /\ entry = "crawl_additional_site"
    /\ ~LoopGuard(to_visit, visited, max_pages)
    /\ pc' = "returned"
    /\ result' = format_results(pages)
    /\ UNCHANGED <<entry, start_url, max_pages, to_visit, visited, pages,
                   site, fetches, failed, last, exit_code>>

-----------------------------------------------------------------------------
(* crawler.py: crawl_website.  The PlaywrightCrawler owns the request queue: *)
(* to_visit holds the requests waiting, visited the requests it has handled *)

\* "strategy": "same-domain"; the request queue drops a URL it has seen
keep_enqueued(new_url, base, seen) ==
    Domain(new_url) = Domain(base) /\ new_url \notin seen

RECURSIVE enqueue_links(_, _, _, _)
\* context.enqueue_links: the anchors of the page that resolve
enqueue_links(hrefs, base, seen, tv) ==
    IF hrefs = <<>> THEN tv
    ELSE LET j == urljoin(base, Head(hrefs)) IN
         enqueue_links(Tail(hrefs), base, seen,
                       IF j.ok /\ keep_enqueued(j.url, base, seen \cup tv)
                       THEN tv \cup {j.url} ELSE tv)

\* crawl_website, lines 22-30 and 98-99: crawler.run([initial_request])
CrawlWebsiteRun ==
    /\ pc = "call"
    /\ entry = "crawl_website"
    /\ pages' = <<>>
    /\ visited' = {}
    /\ to_visit' = {start_url}
    /\ pc' = "loop"
    /\ UNCHANGED <<entry, start_url, max_pages, site, fetches, failed, last, result,
                   exit_code>>

\* one request of the crawl, max_requests_per_crawl=max_pages of them at most:
\* the navigation fails, or request_handler (lines 33-95) runs and its
\* try block is left at `stage`: "load" before result.pages.append, "enqueue"
\* inside context.enqueue_links, "end" normally
RequestHandler ==
    /\ pc = "loop"
    /\ entry = "crawl_website"
    /\ LoopGuard(to_visit, visited, max_pages)
    /\ \E url \in to_visit, stage \in {"load", "enqueue", "end"} :
       \E resp \in Answers(url) \cup {Raised} :
         /\ fetches' = [fetches EXCEPT ![url] = @ + 1]
         /\ site' = IF resp = Raised THEN site ELSE [site EXCEPT ![url] = resp]
         /\ failed' = IF resp = Raised THEN failed \cup {url} ELSE failed
         /\ last' = [url |-> url, resp |-> resp]
         /\ visited' = MarkVisited(visited, url)
         /\ IF resp = Raised \/ stage = "load"
            THEN pages' = pages /\ to_visit' = Pop(to_visit, url)
            ELSE /\ pages' = Append(pages, WebPage(url))
                 /\ to_visit' =
                      IF stage = "enqueue" THEN Pop(to_visit, url)
                      ELSE enqueue_links(find_all_a(resp.html), url,
                                         visited', Pop(to_visit, url))
    /\ UNCHANGED <<entry, start_url, max_pages, pc, result, exit_code>>

\* crawl_website, line 101: return result.pages
CrawlWebsiteReturn ==
    /\ pc = "loop"
    /\ entry = "crawl_website"
    /\ ~LoopGuard(to_visit, visited, max_pages)
    /\ pc' = "returned"
    /\ result' = "pages"
    /\ UNCHANGED <<entry, start_url, max_pages, to_visit, visited, pages,
                   site, fetches, failed, last, exit_code>>

-----------------------------------------------------------------------------

Next ==
    \/ CrawlSiteEnter
    \/ CrawlSiteStep
    \/ CrawlSiteReturn
    \/ GenerateReport
    \/ SearchWeb
    \/ AdditionalEnter
    \/ AdditionalStep
    \/ AdditionalReturn
    \/ CrawlWebsiteRun
    \/ RequestHandler
    \/ CrawlWebsiteReturn

Spec == Init /\ [][Next]_vars

\* the event loop runs a coroutine that can take a step
FairSpec == Spec /\ WF_vars(Next)

-----------------------------------------------------------------------------
(* Properties *)

\* the three crawls, and the two whose loop is written out in main.py
Crawls == {"crawl_site", "run", "crawl_additional_site", "crawl_website"}
Loops == {"crawl_site", "run", "crawl_additional_site"}

\* the loop of a crawl is over: by its guard, or by an exception raised in it
LoopEnded ==
    \/ pc \in {"returned", "report"}
    \/ pc = "raised" /\ result # "ClientError"

RecordUrls == {pages[i].url : i \in 1 .. Len(pages)}

RECURSIVE Sum(_, _)
Sum(f, S) ==
    IF S = {} THEN 0
    ELSE LET u == CHOOSE x \in S : TRUE IN f[u] + Sum(f, S \ {u})

\* the number of GETs the crawl has issued
Attempts == Sum(fetches, AllUrls)

SameOriginOnly ==
    entry \in Crawls =>
        \A u \in to_visit \cup visited \cup RecordUrls :
            Origin(u) = Origin(start_url)

\* C3: a URL whose server answers with a non-2xx status is neither visited
\* nor recorded
NonOkNotRecorded ==
    entry \in Loops =>
        \A u \in AllUrls :
            (site[u] # Unknown /\ site[u].status \notin 200 .. 299)
                => u \notin visited \cup RecordUrls

\* the site of two pages that link to each other
CycleSite ==
    [u \in AllUrls |->
        IF u = U1 THEN [status |-> StatusOK, html |-> <<A(Path(PathP))>>]
        ELSE IF u = UP THEN [status |-> StatusOK, html |-> <<A(Abs(U1))>>]
        ELSE Unknown]

\* C4: the loop of crawl_site and of crawl_additional_site comes to an end on
\* every site and for every budget, and on the two-page cycle with
\* max_pages = 5 it has recorded at most 2 pages
CrawlTerminates ==
    /\ <>(entry \in Loops => pc \notin {"call", "loop"})
    /\ [](entry \in Loops /\ site = CycleSite /\ max_pages = DefaultMaxPages
             => Len(pages) <= 2)

\* crawl_site has returned from the two-page cycle with both pages
CycleCrawled ==
    /\ entry = "crawl_site"
    /\ pc = "returned"
    /\ site = CycleSite
    /\ max_pages = DefaultMaxPages
    /\ visited = {U1, UP}
    /\ Len(pages) = 2

\* fetch_page returns a non-empty body for the start URL
StartFetchable ==
    /\ site[start_url] # Unknown
    /\ site[start_url].html # <<>>
    /\ start_url \notin failed

\* C5 as stated: for any max_pages, a crawl_site whose start URL is fetchable
\* ends with the start URL visited and recorded
StartRecordedAnyBudget ==
    (entry \in {"crawl_site", "run"} /\ LoopEnded /\ StartFetchable)
        => start_url \in visited /\ start_url \in RecordUrls

\* C5, amended: for max_pages >= 1, a crawl_site whose start URL is fetchable
\* ends with the start URL visited and recorded; a single fetchable page
\* without links and max_pages = 5 gives exactly 1 record
StartRecorded ==
    (entry \in {"crawl_site", "run"} /\ LoopEnded /\ StartFetchable
                                    /\ max_pages >= 1)
        => /\ start_url \in visited
           /\ start_url \in RecordUrls
           /\ (site[start_url].html = <<Text>> /\ max_pages = DefaultMaxPages
                  => Len(pages) = 1)

\* crawl_site has returned from a single page without links
SinglePageCrawled ==
    /\ entry = "crawl_site"
    /\ pc = "returned"
    /\ max_pages = DefaultMaxPages
    /\ site[start_url] = [status |-> StatusOK, html |-> <<Text>>]
    /\ pages = <<WebPage(start_url)>>

\* C6: a tool call never raises; search_web returns its results or the
\* "Search failed" string, crawl_additional_site returns "Crawling failed",
\* "No content found" when it has no page, or the formatted pages
ToolsReturnStrings ==
    /\ entry = "search_web" =>
          /\ pc \in {"call", "returned"}
          /\ pc = "returned" => result \in {"results", "Search failed"}
    /\ entry = "crawl_additional_site" =>
          /\ pc \in {"call", "loop", "returned"}
          /\ pc = "returned" =>
                /\ result \in {"Crawling failed", "No content found",
                               "formatted"}
                /\ result = "No content found" => pages = <<>>
                /\ result = "formatted" => pages # <<>>

\* crawl_additional_site has returned "No content found" after a fetch raised
ToolDegraded ==
    /\ entry = "crawl_additional_site"
    /\ pc = "returned"
    /\ result = "No content found"
    /\ last.resp = Raised

FetchFailed(e, r) ==
    IF e = "crawl_additional_site"
    THEN r = Raised \/ r.status # StatusOK
    ELSE r = Raised \/ r.html = <<>>

\* C8: a step whose fetch fails leaves visited and the records unchanged, adds
\* nothing to pending and leaves the crawl in its loop; visited never exceeds
\* the budget; a crawl whose start URL could not be fetched has no record and
\* raises nothing
FailedFetchIsSkipped ==
    /\ [][(entry \in Loops /\ fetches' # fetches
              /\ FetchFailed(entry, last'.resp))
            => /\ visited' = visited
               /\ pages' = pages
               /\ to_visit' \subseteq to_visit
               /\ pc' = "loop"]_vars
    /\ [](entry \in Loops => Cardinality(visited) <= max_pages)
    /\ []((entry \in Loops /\ fetches[start_url] > 0
              /\ start_url \notin visited)
            => pages = <<>> /\ result \notin {"ClientError", "ValueError"})

\* a crawl that filled its budget of 2 with more than 2 fetch attempts
MoreAttemptsThanBudget ==
    /\ entry \in Loops
    /\ pc = "returned"
    /\ max_pages = 2
    /\ Cardinality(visited) = 2
    /\ Attempts > 2
    /\ failed # {}

\* C9: no URL is fetched twice in one crawl
NoRefetch ==
    entry \in Loops => \A u \in AllUrls : fetches[u] <= 1

\* C10: visited and to_visit are disjoint whenever the loop guard is evaluated
VisitedPendingDisjoint ==
    (entry \in Loops /\ pc = "loop") => visited \cap to_visit = {}

\* the page /p, which links to itself, has been visited and the loop goes on
SelfLinkVisited ==
    /\ entry \in Loops
    /\ pc = "loop"
    /\ UP \in visited
    /\ site[UP] = [status |-> StatusOK, html |-> <<A(Path(PathP))>>]
    /\ to_visit # {}

=============================================================================
